---- MODULE Spec2Model ----
(***************************************************************************)
(* Model of src/model/out_simple_transformer/classification_utils.py:      *)
(* the feature encoder (convert_example_to_feature), the pair truncation    *)
(* loop (_truncate_seq_pair), the sliding-window encoder, the batch driver  *)
(* (convert_examples_to_features, sequential or over a multiprocessing     *)
(* Pool) and LazyClassificationDataset.                                     *)
(*                                                                         *)
(* Python values are modelled as follows: a list is a sequence; None, ""    *)
(* and [] (all falsy, and never distinguished by the code other than by     *)
(* truthiness) are the empty sequence; a raised exception is the name of    *)
(* its class in the field "raised" ("" when nothing was raised).            *)
(***************************************************************************)
EXTENDS Integers, Sequences, FiniteSets, TLC

\* ------------------------------------------------------------------ bounds
MaxWordsA == 2
MaxSeqLen == 5
MaxStride == 3
MaxExamples == 3
MaxLines == 3
MaxStartLine == 2

\* ------------------------------------------------------- Python primitives
Min(a, b) == IF a < b THEN a ELSE b
Max(a, b) == IF a > b THEN a ELSE b

\* [x] * n : the empty list when n <= 0
Repeat(x, n) == [i \in 1..Max(n, 0) |-> x]

\* s[:n], with Python's meaning of a negative n (count from the end)
SliceTo(s, n) ==
    IF n >= 0 THEN SubSeq(s, 1, Min(n, Len(s)))
    ELSE SubSeq(s, 1, Max(Len(s) + n, 0))

\* s[i : i + n] for 0-based i >= 0 and n >= 0
Slice(s, i, n) == SubSeq(s, i + 1, Min(i + n, Len(s)))

\* all sequences over S of length 0..n
SeqsUpTo(S, n) == UNION {[1..k -> S] : k \in 0..n}

RECURSIVE Flatten(_)
Flatten(ss) == IF ss = <<>> THEN <<>> ELSE Head(ss) \o Flatten(Tail(ss))

\* ------------------------------------------------------------- the tokenizer
\* The tokenizer is an external capability; it is modelled by a three-word
\* vocabulary whose words split into 0, 1 and 2 sub-tokens.
Words == {"w0", "w1", "w2"}

tokenize_word(word) ==
    CASE word = "w0" -> <<>>
      [] word = "w1" -> <<"t1">>
      [] word = "w2" -> <<"t2a", "t2b">>

\* tokenizer.tokenize(text) on a whitespace-joined text: word by word
tokenize(text) == Flatten([i \in 1..Len(text) |-> tokenize_word(text[i])])

token_id(tok) ==
    CASE tok = "[CLS]" -> 101
      [] tok = "[SEP]" -> 102
      [] tok = "t1" -> 11
      [] tok = "t2a" -> 12
      [] tok = "t2b" -> 13

convert_tokens_to_ids(tokens) == [i \in 1..Len(tokens) |-> token_id(tokens[i])]

\* ------------------------------------------------------------- InputExample
\* InputExample.__init__: bboxes is the zip of the four coordinate lists
InputExample(guid, text_a, text_b, label, features, x0, y0, x1, y1) ==
    [guid |-> guid, text_a |-> text_a, text_b |-> text_b, label |-> label,
     features |-> features,
     bboxes |-> [i \in 1..Min(Min(Len(x0), Len(y0)), Min(Len(x1), Len(y1))) |->
                    <<x0[i], y0[i], x1[i], y1[i]>>]]

\* the outcome of a call: what it returned, or what it raised
Returned(v) == [raised |-> "", value |-> v]
Raised(e) == [raised |-> e, value |-> <<>>]

\* InputFeatures.__init__ called with the keyword arguments kwargs: the first
\* five parameters have no default, so a call without one of them raises
\* TypeError; the bboxes attribute is set only when truthy
InputFeaturesRequired == {"input_ids", "input_mask", "segment_ids", "label_id", "feature_id"}

InputFeatures(kwargs) ==
    IF InputFeaturesRequired \subseteq DOMAIN kwargs
    THEN Returned([input_ids |-> kwargs.input_ids, input_mask |-> kwargs.input_mask,
                   segment_ids |-> kwargs.segment_ids, label_id |-> kwargs.label_id,
                   feature_id |-> kwargs.feature_id,
                   bboxes |-> IF "bboxes" \in DOMAIN kwargs THEN kwargs.bboxes ELSE <<>>])
    ELSE Raised("TypeError")

cls_token_box == <<0, 0, 0, 0>>
sep_token_box == <<1000, 1000, 1000, 1000>>
pad_token_box == <<0, 0, 0, 0>>

\* ------------------------------------------------------------- example_row
\* The positional tuple convert_examples_to_features packs for each example.
\* A stride is the rational <<numerator, denominator>>.
pack_row(example, a) ==
    <<example, a.max_seq_length, a.tokenizer, a.output_mode, a.cls_token_at_end,
      a.cls_token, a.sep_token, a.cls_token_segment_id, a.pad_on_left,
      a.pad_token_segment_id, a.sep_token_extra, a.multi_label, a.stride,
      a.pad_token, a.add_prefix_space, a.pad_to_max_length>>

\* number of names on the left of the unpacking assignment of each encoder
feature_unpack_arity == 16
window_unpack_arity == 13

\* keyword defaults of convert_example_to_feature that the row does not carry
sequence_a_segment_id == 0
sequence_b_segment_id == 1

\* the locals of one call of convert_example_to_feature
EmptyFrame ==
    [tokens_a |-> <<>>, tokens_b |-> <<>>, bboxes |-> <<>>, tokens |-> <<>>,
     segment_ids |-> <<>>, input_ids |-> <<>>, input_mask |-> <<>>,
     raised |-> ""]

\* reserved for the special tokens: lines 120 and 124
special_tokens_count(row) ==
    IF row[1].text_b # <<>>
    THEN (IF row[11] THEN 4 ELSE 3)
    ELSE (IF row[11] THEN 3 ELSE 2)

\* lines 74-116: unpack the row, tokenize text_a (word by word with its box
\* when the example carries boxes) and text_b
encode_tokenize(row) ==
    IF Len(row) # feature_unpack_arity
    THEN [EmptyFrame EXCEPT !.raised = "ValueError"]
    ELSE LET ex == row[1]
             n  == Min(Len(ex.text_a), Len(ex.bboxes))
         IN [EmptyFrame EXCEPT
               !.tokens_a = IF ex.bboxes # <<>>
                            THEN Flatten([i \in 1..n |-> tokenize_word(ex.text_a[i])])
                            ELSE tokenize(ex.text_a),
               !.bboxes   = IF ex.bboxes # <<>>
                            THEN Flatten([i \in 1..n |->
                                    Repeat(ex.bboxes[i], Len(tokenize_word(ex.text_a[i])))])
                            ELSE <<>>,
               !.tokens_b = IF ex.text_b # <<>> THEN tokenize(ex.text_b) ELSE <<>>]

\* line 319: the loop's exit test
truncate_fits(f, max_length) == Len(f.tokens_a) + Len(f.tokens_b) <= max_length

\* a removal that takes from A on a tie
truncate_pop_tie_a(f) ==
    IF Len(f.tokens_a) >= Len(f.tokens_b)
    THEN IF f.tokens_a = <<>>
         THEN [f EXCEPT !.raised = "IndexError"]
         ELSE [f EXCEPT !.tokens_a = SubSeq(f.tokens_a, 1, Len(f.tokens_a) - 1)]
    ELSE [f EXCEPT !.tokens_b = SubSeq(f.tokens_b, 1, Len(f.tokens_b) - 1)]

\* lines 321-324: one removal; list.pop() on an empty list raises IndexError
truncate_pop(f) ==
    IF Len(f.tokens_a) > Len(f.tokens_b)
    THEN [f EXCEPT !.tokens_a = SubSeq(f.tokens_a, 1, Len(f.tokens_a) - 1)]
    ELSE IF f.tokens_b = <<>>
         THEN [f EXCEPT !.raised = "IndexError"]
         ELSE [f EXCEPT !.tokens_b = SubSeq(f.tokens_b, 1, Len(f.tokens_b) - 1)]

\* lines 317-324: the whole loop
RECURSIVE truncate_seq_pair(_, _)
truncate_seq_pair(f, max_length) ==
    IF truncate_fits(f, max_length) THEN f
    ELSE LET g == truncate_pop(f)
         IN IF g.raised # "" THEN g ELSE truncate_seq_pair(g, max_length)

\* a single cut that reserves only one special token
truncate_single_reserve_one(row, f) ==
    [f EXCEPT !.tokens_a = SliceTo(f.tokens_a, row[2] - 1),
              !.bboxes = SliceTo(f.bboxes, row[2] - 1)]

\* lines 124-128: a single sequence is cut to the budget, its boxes with it
truncate_single(row, f) ==
    LET budget == row[2] - special_tokens_count(row)
    IN IF Len(f.tokens_a) > budget
       THEN [f EXCEPT !.tokens_a = SliceTo(f.tokens_a, budget),
                      !.bboxes = IF row[1].bboxes # <<>>
                                 THEN SliceTo(f.bboxes, budget) ELSE f.bboxes]
       ELSE f

\* lines 148-161: tokens_a, SEP, and for a pair (SEP,) tokens_b, SEP
encode_assemble(row, f) ==
    LET t1 == f.tokens_a \o <<row[7]>>
        s1 == Repeat(sequence_a_segment_id, Len(t1))
        b1 == IF f.bboxes # <<>> THEN f.bboxes \o <<sep_token_box>> ELSE f.bboxes
        t2 == IF row[11] THEN t1 \o <<row[7]>> ELSE t1
        s2 == IF row[11] THEN s1 \o <<sequence_b_segment_id>> ELSE s1
    IN IF f.tokens_b # <<>>
       THEN [f EXCEPT !.tokens = t2 \o f.tokens_b \o <<row[7]>>,
                      !.segment_ids = s2 \o Repeat(sequence_b_segment_id, Len(f.tokens_b) + 1),
                      !.bboxes = b1]
       ELSE [f EXCEPT !.tokens = t1, !.segment_ids = s1, !.bboxes = b1]

\* lines 163-170: the classification token, at the end or at the front
encode_cls(row, f) ==
    IF row[5]
    THEN [f EXCEPT !.tokens = f.tokens \o <<row[6]>>,
                   !.segment_ids = f.segment_ids \o <<row[8]>>]
    ELSE [f EXCEPT !.tokens = <<row[6]>> \o f.tokens,
                   !.segment_ids = <<row[8]>> \o f.segment_ids,
                   !.bboxes = IF f.bboxes # <<>>
                              THEN <<cls_token_box>> \o f.bboxes ELSE f.bboxes]

\* lines 172-176: ids and the mask of the real tokens
encode_ids(row, f, mask_padding_with_zero) ==
    LET ids == convert_tokens_to_ids(f.tokens)
    IN [f EXCEPT !.input_ids = ids,
                 !.input_mask = Repeat(IF mask_padding_with_zero THEN 1 ELSE 0, Len(ids))]

\* lines 192-196: the length assertions
lengths_asserted(row, f) ==
    /\ Len(f.input_ids) = row[2]
    /\ Len(f.input_mask) = row[2]
    /\ Len(f.segment_ids) = row[2]
    /\ f.bboxes # <<>> => Len(f.bboxes) = row[2]

\* lines 179-190: padding on the left or on the right
pad_sequences(row, f, mask_padding_with_zero) ==
    LET padding_length == row[2] - Len(f.input_ids)
        pad_mask == IF mask_padding_with_zero THEN 0 ELSE 1
    IN IF row[9]
       THEN [f EXCEPT !.input_ids = Repeat(row[14], padding_length) \o f.input_ids,
                      !.input_mask = Repeat(pad_mask, padding_length) \o f.input_mask,
                      !.segment_ids = Repeat(row[10], padding_length) \o f.segment_ids]
       ELSE [f EXCEPT !.input_ids = f.input_ids \o Repeat(row[14], padding_length),
                      !.input_mask = f.input_mask \o Repeat(pad_mask, padding_length),
                      !.segment_ids = f.segment_ids \o Repeat(row[10], padding_length),
                      !.bboxes = IF f.bboxes # <<>>
                                 THEN f.bboxes \o Repeat(pad_token_box, padding_length)
                                 ELSE f.bboxes]

\* lines 179-196: pad when pad_to_max_length, then assert the lengths
encode_pad(row, f, mask_padding_with_zero) ==
    IF ~row[16] THEN f
    ELSE LET g == pad_sequences(row, f, mask_padding_with_zero)
         IN IF lengths_asserted(row, g) THEN g
            ELSE [g EXCEPT !.raised = "AssertionError"]

\* lines 205-212: the returned record, with boxes when there are any
encode_return(row, f) ==
    IF f.bboxes # <<>>
    THEN InputFeatures([input_ids |-> f.input_ids, input_mask |-> f.input_mask,
                        segment_ids |-> f.segment_ids, label_id |-> row[1].label,
                        feature_id |-> row[1].features, bboxes |-> f.bboxes])
    ELSE InputFeatures([input_ids |-> f.input_ids, input_mask |-> f.input_mask,
                        segment_ids |-> f.segment_ids, label_id |-> row[1].label,
                        feature_id |-> row[1].features])

\* lines 111-128: tokens_b decides between the pair loop and the single cut
encode_truncate(row, f) ==
    IF row[1].text_b # <<>>
    THEN truncate_seq_pair(f, row[2] - special_tokens_count(row))
    ELSE truncate_single(row, f)

\* lines 64-212: the whole call
convert_example_to_feature(row, mask_padding_with_zero) ==
    LET f0 == encode_tokenize(row)
    IN IF f0.raised # "" THEN Raised(f0.raised)
       ELSE LET f1 == encode_truncate(row, f0)
            IN IF f1.raised # "" THEN Raised(f1.raised)
               ELSE LET f2 == encode_pad(row,
                                 encode_ids(row, encode_cls(row, encode_assemble(row, f1)),
                                            mask_padding_with_zero),
                                 mask_padding_with_zero)
                    IN IF f2.raised # "" THEN Raised(f2.raised)
                       ELSE encode_return(row, f2)

\* --------------------------------- convert_example_to_feature_sliding_window
\* keyword default of the sliding-window encoder that its row does not carry
window_pad_token == 0

\* the 13 values the sliding-window encoder unpacks, as a direct caller packs them
window_row(example, a) ==
    <<example, a.max_seq_length, a.tokenizer, a.output_mode, a.cls_token_at_end,
      a.cls_token, a.sep_token, a.cls_token_segment_id, a.pad_on_left,
      a.pad_token_segment_id, a.sep_token_extra, a.multi_label, a.stride>>

\* lines 352-353: a stride below 1 is a fraction of max_seq_length
window_stride(max_seq_length, stride) ==
    IF stride[1] < stride[2]
    THEN (max_seq_length * stride[1]) \div stride[2]
    ELSE stride[1] \div stride[2]

\* line 355
bucket_size(row) == row[2] - (IF row[11] THEN 3 ELSE 2)

\* range(0, n, step) for step >= 1
RangeFrom0(n, step) == [k \in 1..((n + step - 1) \div step) |-> (k - 1) * step]

\* lines 360-363: the windows
token_sets(tokens_a, bucket, stride) ==
    IF Len(tokens_a) > bucket
    THEN LET starts == RangeFrom0(Len(tokens_a), stride)
         IN [k \in 1..Len(starts) |-> Slice(tokens_a, starts[k], bucket)]
    ELSE <<tokens_a>>

WindowFrame ==
    [stride |-> 0, bucket_size |-> 0, tokens_a |-> <<>>, token_sets |-> <<>>,
     input_features |-> <<>>, raised |-> ""]

\* lines 336-366: unpack, convert the stride, split the tokens, reject text_b
window_split(row) ==
    IF Len(row) # window_unpack_arity
    THEN [WindowFrame EXCEPT !.raised = "ValueError"]
    ELSE LET s == window_stride(row[2], row[13])
             b == bucket_size(row)
             t == tokenize(row[1].text_a)
         IN IF Len(t) > b /\ s = 0
            THEN [WindowFrame EXCEPT !.raised = "ValueError"]
            ELSE IF row[1].text_b # <<>>
            THEN [WindowFrame EXCEPT !.raised = "ValueError"]
            ELSE [WindowFrame EXCEPT !.stride = s, !.bucket_size = b, !.tokens_a = t,
                                     !.token_sets = token_sets(t, b, s)]

\* lines 389-428: one window with SEP and CLS, its ids, mask and padding, the
\* length assertions, and the InputFeatures call (made without feature_id)
window_encode(row, tokens_a, mask_padding_with_zero) ==
    LET t1 == tokens_a \o <<row[7]>>
        s1 == Repeat(sequence_a_segment_id, Len(t1))
        tokens == IF row[5] THEN t1 \o <<row[6]>> ELSE <<row[6]>> \o t1
        segs == IF row[5] THEN s1 \o <<row[8]>> ELSE <<row[8]>> \o s1
        ids == convert_tokens_to_ids(tokens)
        mask == Repeat(IF mask_padding_with_zero THEN 1 ELSE 0, Len(ids))
        padding_length == row[2] - Len(ids)
        pad_mask == IF mask_padding_with_zero THEN 0 ELSE 1
        pids == IF row[9] THEN Repeat(window_pad_token, padding_length) \o ids
                ELSE ids \o Repeat(window_pad_token, padding_length)
        pmask == IF row[9] THEN Repeat(pad_mask, padding_length) \o mask
                 ELSE mask \o Repeat(pad_mask, padding_length)
        psegs == IF row[9] THEN Repeat(row[10], padding_length) \o segs
                 ELSE segs \o Repeat(row[10], padding_length)
    IN IF Len(pids) # row[2] \/ Len(pmask) # row[2] \/ Len(psegs) # row[2]
       THEN Raised("AssertionError")
       ELSE InputFeatures([input_ids |-> pids, input_mask |-> pmask,
                           segment_ids |-> psegs, label_id |-> row[1].label])

\* lines 387-431: the loop over the windows, to the first one that raises
RECURSIVE window_encode_all(_, _, _, _)
window_encode_all(row, sets, done, mask_padding_with_zero) ==
    IF sets = <<>> THEN Returned(done)
    ELSE LET r == window_encode(row, Head(sets), mask_padding_with_zero)
         IN IF r.raised # "" THEN Raised(r.raised)
            ELSE window_encode_all(row, Tail(sets), Append(done, r.value),
                                   mask_padding_with_zero)

\* lines 326-431: the whole call
convert_example_to_feature_sliding_window(row, mask_padding_with_zero) ==
    LET f == window_split(row)
    IN IF f.raised # "" THEN Raised(f.raised)
       ELSE window_encode_all(row, f.token_sets, <<>>, mask_padding_with_zero)


\* ------------------------------------------------ convert_examples_to_features
\* line 71: the keyword default the encoders run with; the driver's own
\* mask_padding_with_zero argument is not in the row and is not passed on
encoder_mask_default == TRUE

\* line 273: the smallest computed chunk size
min_chunksize == 500

\* lines 272-275
chunksize_of(n_examples, args) ==
    IF args.multiprocessing_chunksize = -1
    THEN Max(n_examples \div (args.process_count * 2), min_chunksize)
    ELSE args.multiprocessing_chunksize

\* lines 249-269: every example bound to the configuration
pack_rows(c) == [i \in 1..Len(c.examples) |-> pack_row(c.examples[i], c.a)]

\* lines 276-304: the encoder the mode selects, applied to one row
encode_row(c, r) ==
    IF c.sliding_window
    THEN convert_example_to_feature_sliding_window(r, encoder_mask_default)
    ELSE convert_example_to_feature(r, encoder_mask_default)

\* a list comprehension (or a worker's map over a chunk) over rows: the values
\* in order, or the exception of the first row that raises
RECURSIVE map_rows(_, _, _)
map_rows(c, rows, done) ==
    IF rows = <<>> THEN Returned(done)
    ELSE LET r == encode_row(c, Head(rows))
         IN IF r.raised # "" THEN Raised(r.raised)
            ELSE map_rows(c, Tail(rows), Append(done, r.value))

\* lines 285-286 and 301-302: flatten the per-example lists when asked to
flatten_features(c, features) ==
    IF c.sliding_window /\ c.flatten THEN Flatten(features) ELSE features

\* lines 297-306: the sequential branch
sequential_features(c) ==
    LET r == map_rows(c, pack_rows(c), <<>>)
    IN IF r.raised # "" THEN r ELSE Returned(flatten_features(c, r.value))

\* Pool.imap cuts the rows into chunks of chunksize, in order
n_chunks(n, chunksize) == (n + chunksize - 1) \div chunksize
chunk_rows(rows, chunksize, i) == Slice(rows, (i - 1) * chunksize, chunksize)

\* results handed over in the order the chunks finish
next_ready_any(done_chunks, n_yielded) == done_chunks

\* Pool.imap hands results over in submission order: the chunk that may be
\* yielded next is the one after those already yielded, once it is finished
next_ready(done_chunks, n_yielded) == {i \in done_chunks : i = n_yielded + 1}

\* -------------------------------------------------- LazyClassificationDataset
\* A file is the sequence of its lines, a line the sequence of its fields (what
\* rstrip and split on the delimiter give). An optional column is <<>> for
\* None and <<c>> for the 0-based column c. A label is a string read from the
\* file or an int taken from labels_map.
StrLabel(x) == [kind |-> "str", s |-> x, n |-> 0]
IntLabel(x) == [kind |-> "int", s |-> "", n |-> x]

\* truthiness of an optional column: None and 0 are falsy
ColumnTruthy(col) == col # <<>> /\ col[1] # 0

\* lines 453-458: enumerate(f, 1) leaves line_idx at the number of lines; on an
\* empty file the loop never binds it and the return raises UnboundLocalError
get_n_lines_from_zero(data_file, start_row) ==
    IF Len(data_file) = 0 THEN Raised("UnboundLocalError")
    ELSE Returned(Len(data_file) - 1 - start_row)

get_n_lines(data_file, start_row) ==
    IF Len(data_file) = 0 THEN Raised("UnboundLocalError")
    ELSE Returned(Len(data_file) - start_row)

\* lines 435-450: the constructor
lazy_init(data_file, args) ==
    LET n == get_n_lines(data_file, args.lazy_loading_start_line)
        pair == args.lazy_text_a_column # <<>> /\ args.lazy_text_b_column # <<>>
    IN IF n.raised # "" THEN n
       ELSE Returned([start_row |-> args.lazy_loading_start_line,
                      num_entries |-> n.value,
                      text_a_column |-> IF pair THEN args.lazy_text_a_column ELSE <<>>,
                      text_b_column |-> IF pair THEN args.lazy_text_b_column ELSE <<>>,
                      text_column |-> IF pair THEN <<>> ELSE args.lazy_text_column,
                      labels_column |-> args.lazy_labels_column,
                      args |-> args])

\* linecache.getline: the line of that 1-based number, '' when there is none
\* (which splits into one empty field)
getline(data_file, lineno) ==
    IF lineno >= 1 /\ lineno <= Len(data_file) THEN data_file[lineno] ELSE <<"">>

\* line 461: the number of the line __getitem__ reads
item_lineno(ds, idx) == idx + 1 + ds.start_row

\* int(label) and float(label): of an int, or of a string that spells a number
parse_number(label) ==
    IF label.kind = "int" THEN Returned(label.n)
    ELSE CASE label.s = "0" -> Returned(0)
           [] label.s = "1" -> Returned(1)
           [] OTHER -> Raised("ValueError")

\* lines 470-473 and 488-491: the label tensor
label_tensor(ds, label) ==
    LET v == parse_number(label)
    IN IF v.raised # "" THEN v
       ELSE Returned([dtype |-> IF ds.args.regression THEN "float" ELSE "long",
                      value |-> v.value])

\* line 469: labels_map[label], KeyError when the label is not a key
map_label(labels_map, label) ==
    IF label.s \in DOMAIN labels_map THEN Returned(IntLabel(labels_map[label.s]))
    ELSE Raised("KeyError")

\* lines 464-483: the single-text branch
getitem_single(ds, line) ==
    IF ds.text_column = <<>> THEN Raised("TypeError")
    ELSE IF ds.text_column[1] >= Len(line) \/ ds.labels_column >= Len(line)
    THEN Raised("IndexError")
    ELSE LET text == line[ds.text_column[1] + 1]
             raw == StrLabel(line[ds.labels_column + 1])
             mapped == IF ds.args.labels_map # <<>>
                       THEN map_label(ds.args.labels_map, raw) ELSE Returned(raw)
         IN IF mapped.raised # "" THEN mapped
            ELSE LET t == label_tensor(ds, mapped.value)
                 IN IF t.raised # "" THEN t
                    ELSE Returned([encoded |-> <<text>>, label |-> t.value])

\* lines 485-502: the text-pair branch
getitem_pair(ds, line) ==
    IF ds.text_a_column[1] >= Len(line) \/ ds.text_b_column[1] >= Len(line)
         \/ ds.labels_column >= Len(line)
    THEN Raised("IndexError")
    ELSE LET text_a == line[ds.text_a_column[1] + 1]
             text_b == line[ds.text_b_column[1] + 1]
             t == label_tensor(ds, StrLabel(line[ds.labels_column + 1]))
         IN IF t.raised # "" THEN t
            ELSE Returned([encoded |-> <<text_a, text_b>>, label |-> t.value])

\* lines 460-502
lazy_getitem(data_file, ds, idx) ==
    LET line == getline(data_file, item_lineno(ds, idx))
    IN IF ~ColumnTruthy(ds.text_a_column) /\ ~ColumnTruthy(ds.text_b_column)
       THEN getitem_single(ds, line)
       ELSE getitem_pair(ds, line)

\* lines 504-505
lazy_len(ds) == ds.num_entries

\* ===================================================================== state
VARIABLES
    row,        \* the example_row argument of the encoder being executed
    kw,         \* its keyword arguments
    pc,         \* the position in the encoder
    frame,      \* its locals
    result,     \* what the call returned or raised
    call,       \* the arguments of convert_examples_to_features
    bpc,        \* the position of the batch driver
    seq_features,   \* what the call with use_multiprocessing=False gave
    taskq,      \* the Pool's task queue: chunk numbers not yet taken
    running,    \* the chunk each worker process is computing (0: idle)
    cache,      \* finished chunks, <<chunk number, outcome>>, in order of arrival
    collected,  \* the chunks the result iterator has yielded, in yield order
    par_features,   \* what the call with use_multiprocessing=True gave
    file,       \* the data file of the lazy dataset
    largs,      \* the args the lazy dataset is built with
    ds,         \* the LazyClassificationDataset object: <<>> before __init__
    lcall       \* the last method call on it and its outcome

callVars == <<row, kw, pc, frame, result>>
batchVars == <<call, bpc, seq_features, taskq, running, cache, collected, par_features>>
lazyVars == <<file, largs, ds, lcall>>
vars == <<callVars, batchVars, lazyVars>>

NoResult == [raised |-> "", value |-> <<>>]

\* the variables of a component that is not running
BatchIdle ==
    /\ call = <<>> /\ bpc = "idle" /\ seq_features = NoResult /\ taskq = <<>>
    /\ running = <<>> /\ cache = <<>> /\ collected = <<>> /\ par_features = NoResult
LazyIdle ==
    /\ file = <<>> /\ largs = <<>> /\ ds = <<>> /\ lcall = <<>>
CallIdle ==
    /\ row = <<>> /\ kw = <<>> /\ pc = "idle" /\ frame = <<>> /\ result = NoResult

\* ------------------------------------------------------------------ inputs
SeqLens == 2..MaxSeqLen

\* word i of text_a has the box <<i, i, i + 1, i + 1>>
BoxCoords(n, d) == [i \in 1..n |-> i + d]

TextsB == {<<>>, <<"w0">>, <<"w1">>, <<"w2", "w1">>, <<"w2", "w2">>}

PlainExamples ==
    {InputExample("g", ta, tb, "1", "f", <<>>, <<>>, <<>>, <<>>) :
        ta \in SeqsUpTo(Words, MaxWordsA), tb \in TextsB}

BoxExamples ==
    {InputExample("g", ta, tb, "1", "f", BoxCoords(Len(ta), 0), BoxCoords(Len(ta), 0),
                  BoxCoords(Len(ta), 1), BoxCoords(Len(ta), 1)) :
        ta \in SeqsUpTo(Words, MaxWordsA) \ {<<>>}, tb \in TextsB}

Examples == PlainExamples \cup BoxExamples

DefaultStride == <<4, 5>>

\* the arguments of convert_examples_to_features that reach the row, at their
\* defaults except for those the properties range over
DriverArgs(msl, cae, pol, ste, ptm, stride) ==
    [max_seq_length |-> msl, tokenizer |-> "tokenizer",
     output_mode |-> "classification", cls_token_at_end |-> cae,
     cls_token |-> "[CLS]", sep_token |-> "[SEP]", cls_token_segment_id |-> 1,
     pad_on_left |-> pol, pad_token_segment_id |-> 0, sep_token_extra |-> ste,
     multi_label |-> FALSE, stride |-> stride, pad_token |-> 0,
     add_prefix_space |-> FALSE, pad_to_max_length |-> ptm]

FeatureRows ==
    {pack_row(ex, DriverArgs(msl, cae, pol, ste, ptm, DefaultStride)) :
        ex \in Examples, msl \in SeqLens, cae \in BOOLEAN, pol \in BOOLEAN,
        ste \in BOOLEAN, ptm \in BOOLEAN}

\* strides: the fractions 1/10, 1/2 and 4/5, and the counts 1..MaxStride
Strides == {<<1, 10>>, <<1, 2>>, DefaultStride} \cup {<<k, 1>> : k \in 1..MaxStride}

\* the sliding-window encoder is given lengths that leave a bucket of at least 1
WindowSeqLens == {m \in SeqLens : m - 3 >= 1}

WindowArgs ==
    {DriverArgs(msl, cae, pol, ste, TRUE, st) :
        msl \in WindowSeqLens, cae \in BOOLEAN, pol \in BOOLEAN, ste \in BOOLEAN,
        st \in Strides}

\* rows as a direct caller packs them, and rows as the batch driver packs them
WindowRows ==
    {window_row(ex, a) : ex \in PlainExamples, a \in WindowArgs}
        \cup {pack_row(ex, a) : ex \in {e \in PlainExamples : e.text_b = <<>>},
                                a \in {w \in WindowArgs : w.stride = DefaultStride}}

\* ------------------------------------------- convert_example_to_feature, by step
InitEncode ==
    /\ row \in FeatureRows
    /\ kw = [mask_padding_with_zero |-> TRUE]
    /\ pc = "tokenize"
    /\ frame = EmptyFrame
    /\ result = NoResult
    /\ BatchIdle
    /\ LazyIdle

Raise(f) ==
    /\ pc' = "raised"
    /\ result' = Raised(f.raised)

Tokenize ==
    /\ pc = "tokenize"
    /\ LET f == encode_tokenize(row)
       IN /\ frame' = f
          /\ IF f.raised # "" THEN Raise(f)
             ELSE /\ pc' = IF row[1].text_b # <<>> THEN "truncate_pair" ELSE "truncate_single"
                  /\ UNCHANGED result
    /\ UNCHANGED <<row, kw, batchVars, lazyVars>>

\* one iteration of the loop of _truncate_seq_pair
TruncatePairIter ==
    /\ pc = "truncate_pair"
    /\ IF truncate_fits(frame, row[2] - special_tokens_count(row))
       THEN /\ pc' = "assemble"
            /\ UNCHANGED <<frame, result>>
       ELSE LET f == truncate_pop(frame)
            IN /\ frame' = f
               /\ IF f.raised # "" THEN Raise(f) ELSE UNCHANGED <<pc, result>>
    /\ UNCHANGED <<row, kw, batchVars, lazyVars>>

TruncateSingle ==
    /\ pc = "truncate_single"
    /\ frame' = truncate_single(row, frame)
    /\ pc' = "assemble"
    /\ UNCHANGED <<row, kw, result, batchVars, lazyVars>>

Assemble ==
    /\ pc = "assemble"
    /\ frame' = encode_assemble(row, frame)
    /\ pc' = "cls"
    /\ UNCHANGED <<row, kw, result, batchVars, lazyVars>>

InsertCls ==
    /\ pc = "cls"
    /\ frame' = encode_cls(row, frame)
    /\ pc' = "ids"
    /\ UNCHANGED <<row, kw, result, batchVars, lazyVars>>

ToIds ==
    /\ pc = "ids"
    /\ frame' = encode_ids(row, frame, kw.mask_padding_with_zero)
    /\ pc' = "pad"
    /\ UNCHANGED <<row, kw, result, batchVars, lazyVars>>

Pad ==
    /\ pc = "pad"
    /\ LET f == encode_pad(row, frame, kw.mask_padding_with_zero)
       IN /\ frame' = f
          /\ IF f.raised # "" THEN Raise(f)
             ELSE /\ pc' = "return"
                  /\ UNCHANGED result
    /\ UNCHANGED <<row, kw, batchVars, lazyVars>>

Return ==
    /\ pc = "return"
    /\ result' = encode_return(row, frame)
    /\ pc' = "done"
    /\ UNCHANGED <<row, kw, frame, batchVars, lazyVars>>

NextEncode ==
    \/ Tokenize
    \/ TruncatePairIter
    \/ TruncateSingle
    \/ Assemble
    \/ InsertCls
    \/ ToIds
    \/ Pad
    \/ Return

SpecEncode == InitEncode /\ [][NextEncode]_vars

\* the stepwise execution and the composed operator agree
StepwiseIsComposed ==
    pc \in {"done", "raised"} =>
        result = convert_example_to_feature(row, kw.mask_padding_with_zero)

\* ------------------------------------------------- properties of the encoder
\* what the call in progress started from
TokensA0 == encode_tokenize(row).tokens_a
TokensB0 == encode_tokenize(row).tokens_b
Boxes0 == encode_tokenize(row).bboxes
IsPair == row[1].text_b # <<>>
HasBoxes == row[1].bboxes # <<>>
\* 2 or 3 for a single sequence, 3 or 4 for a pair
ReservedCount == (IF IsPair THEN 3 ELSE 2) + (IF row[11] THEN 1 ELSE 0)
Budget == row[2] - ReservedCount
AfterTruncation == pc \in {"assemble", "cls", "ids", "pad", "return", "done"}

\* C1: with pad_to_max_length set, max_seq_length at least the reserved
\* special-token count and an example without boxes, the call raises nothing
\* and returns input_ids, input_mask and segment_ids of length max_seq_length
C1_PaddedLengths ==
    (row[16] /\ ~HasBoxes /\ row[2] >= ReservedCount) =>
        /\ pc # "raised"
        /\ pc = "done" =>
            /\ Len(result.value.input_ids) = row[2]
            /\ Len(result.value.input_mask) = row[2]
            /\ Len(result.value.segment_ids) = row[2]

\* C1 witness: a padded pair without boxes, truncated down to a zero budget,
\* with the extra separator, CLS at the end and padding on the left, has
\* returned
C1_Witness ==
    /\ pc = "done" /\ row[16] /\ ~HasBoxes /\ IsPair
    /\ row[2] = ReservedCount
    /\ row[5] /\ row[9] /\ row[11]
    /\ Len(TokensA0) + Len(TokensB0) > 0

\* the two parts of C4: the state the loop leaves, and each removal
C4_State ==
    (IsPair /\ Budget >= 0) =>
        /\ result.raised # "IndexError"
        /\ AfterTruncation =>
            /\ Len(frame.tokens_a) + Len(frame.tokens_b)
                 = Min(Len(TokensA0) + Len(TokensB0), Budget)
            /\ Len(TokensA0) + Len(TokensB0) > Budget =>
                 Len(frame.tokens_a) + Len(frame.tokens_b) = Budget

C4_Removal ==
    (pc = "truncate_pair" /\ frame' # frame /\ frame'.raised = "") =>
        LET a == frame.tokens_a
            b == frame.tokens_b
        IN IF Len(a) > Len(b)
           THEN /\ frame'.tokens_a = SubSeq(a, 1, Len(a) - 1)
                /\ frame'.tokens_b = b
           ELSE /\ frame'.tokens_b = SubSeq(b, 1, Len(b) - 1)
                /\ frame'.tokens_a = a
                /\ Len(b) > 0

\* C4: for a budget M >= 0 the pair loop never pops an empty list and ends
\* with len(A) + len(B) = min(La + Lb, M), which is M exactly when La + Lb
\* exceeds M; every removal takes the last element of the longer sequence,
\* and of B when the lengths are equal
C4_TruncateSeqPair == []C4_State /\ [][C4_Removal]_vars

\* C4 witness: a pair whose two sequences were both shortened has left the
\* loop, having passed through a tie
C4_Witness ==
    /\ pc = "assemble" /\ IsPair /\ Budget > 0
    /\ Len(frame.tokens_a) < Len(TokensA0)
    /\ Len(frame.tokens_b) < Len(TokensB0)
    /\ Len(frame.tokens_a) = Len(frame.tokens_b)

\* the layout C8 describes
SepCount == IF row[11] THEN 2 ELSE 1
C8_ClaimedTokens ==
    frame.tokens_a \o Repeat("[SEP]", SepCount)
        \o (IF IsPair THEN frame.tokens_b \o <<"[SEP]">> ELSE <<>>)
C8_ClaimedSegments ==
    Repeat(0, Len(frame.tokens_a) + SepCount)
        \o (IF IsPair THEN Repeat(1, Len(frame.tokens_b) + 1) ELSE <<>>)
\* C8: before CLS insertion the sequence is tokens_a, one SEP (two with
\* sep_token_extra), all with segment id 0, then for a pair tokens_b and one
\* SEP with segment id 1; the special tokens inserted are as many as reserved
\* (stated for max_seq_length at least the reserved count, where no slice or
\* pop goes out of range)
C8_AssembledLayout ==
    (pc = "cls" /\ row[2] >= ReservedCount) =>
        /\ frame.tokens = C8_ClaimedTokens
        /\ frame.segment_ids = C8_ClaimedSegments
        /\ Len(frame.tokens) + 1 - Len(frame.tokens_a) - Len(frame.tokens_b)
             = ReservedCount

\* where token 1 of text_a lands in the padded sequence
C9_TokenOffset ==
    (IF row[9] THEN row[2] - Len(frame.tokens) ELSE 0) + (IF row[5] THEN 0 ELSE 1)
\* C9: an example with boxes, padded, yields a record whose boxes have length
\* max_seq_length and are aligned with input_ids: the parent word's box on
\* each sub-token of text_a, [1000]*4 on SEP, [0]*4 on CLS and on padding;
\* the record carries boxes exactly when the example had boxes (stated for
\* max_seq_length at least the reserved count plus one, so that a token of
\* text_a survives truncation)
C9_BoxesAligned ==
    /\ (HasBoxes /\ row[16] /\ row[2] > ReservedCount) => pc # "raised"
    /\ (pc = "done" /\ row[2] > ReservedCount /\ Boxes0 # <<>>) =>
            result.value.bboxes # <<>>
    /\ (pc = "done" /\ ~HasBoxes) => result.value.bboxes = <<>>
    /\ (pc = "done" /\ HasBoxes /\ row[16] /\ row[2] > ReservedCount) =>
        LET ids == result.value.input_ids
            bx == result.value.bboxes
        IN /\ Len(bx) = row[2]
           /\ \A i \in 1..Len(ids) :
                /\ ids[i] = token_id("[SEP]") => bx[i] = sep_token_box
                /\ ids[i] = token_id("[CLS]") => bx[i] = cls_token_box
                /\ ids[i] = row[14] => bx[i] = pad_token_box
           /\ \A k \in 1..Len(frame.tokens_a) : bx[C9_TokenOffset + k] = Boxes0[k]

\* ------------------------ convert_example_to_feature_sliding_window, by step
InitWindow ==
    /\ row \in WindowRows
    /\ kw = [mask_padding_with_zero |-> TRUE]
    /\ pc = "split"
    /\ frame = WindowFrame
    /\ result = NoResult
    /\ BatchIdle
    /\ LazyIdle

WindowSplit ==
    /\ pc = "split"
    /\ LET f == window_split(row)
       IN /\ frame' = f
          /\ IF f.raised # "" THEN Raise(f)
             ELSE /\ pc' = "windows"
                  /\ UNCHANGED result
    /\ UNCHANGED <<row, kw, batchVars, lazyVars>>

\* one iteration of the loop over token_sets; the return follows the last one
WindowEncode ==
    /\ pc = "windows"
    /\ LET i == Len(frame.input_features) + 1
           r == window_encode(row, frame.token_sets[i], kw.mask_padding_with_zero)
       IN IF r.raised # ""
          THEN /\ frame' = [frame EXCEPT !.raised = r.raised]
               /\ pc' = "raised"
               /\ result' = Raised(r.raised)
          ELSE /\ frame' = [frame EXCEPT !.input_features = Append(@, r.value)]
               /\ IF i = Len(frame.token_sets)
                  THEN /\ pc' = "done"
                       /\ result' = Returned(frame'.input_features)
                  ELSE UNCHANGED <<pc, result>>
    /\ UNCHANGED <<row, kw, batchVars, lazyVars>>

NextWindow ==
    \/ WindowSplit
    \/ WindowEncode

SpecWindow == InitWindow /\ [][NextWindow]_vars

\* the window count C5 gives
C5_ClaimedCount ==
    LET L == Len(frame.tokens_a)
        B == frame.bucket_size
        S == frame.stride
    IN IF L <= B THEN 1 ELSE ((L - B + S - 1) \div S) + 1

\* the stepwise execution and the composed operator agree
WindowStepwiseIsComposed ==
    pc \in {"done", "raised"} =>
        result = convert_example_to_feature_sliding_window(row, kw.mask_padding_with_zero)

\* C5: a single sequence of L tokens with bucket size B and stride S >= 1 is
\* split into 1 window when L <= B and into ceil((L - B) / S) + 1 windows when
\* L > B, window k starting at offset (k - 1) * S and being B tokens long
\* (consecutive windows overlap by B - S tokens), and these windows are what the
\* call returns (the split is stated for S <= B, where windows do overlap)
C5_SlidingWindows ==
    /\ (pc = "windows" /\ frame.stride <= frame.bucket_size) =>
        /\ Len(frame.token_sets) = C5_ClaimedCount
        /\ \A k \in 1..Len(frame.token_sets) :
             frame.token_sets[k] =
                 Slice(frame.tokens_a, (k - 1) * frame.stride, frame.bucket_size)
        /\ \A k \in 1..(Len(frame.token_sets) - 1) :
             Len(frame.token_sets[k]) - frame.stride
                 = frame.bucket_size - frame.stride
    /\ (Len(row) = window_unpack_arity /\ row[1].text_b = <<>>
          /\ window_stride(row[2], row[13]) >= 1) =>
        /\ pc # "raised"
        /\ pc = "done" => Len(result.value) = C5_ClaimedCount

\* ---------------------------------------- convert_examples_to_features, by step
\* a short and a longer single sequence, and a sequence with boxes
BatchExamples ==
    {InputExample("g", <<"w1">>, <<>>, "1", "f", <<>>, <<>>, <<>>, <<>>),
     InputExample("g", <<"w2", "w1">>, <<>>, "0", "f", <<>>, <<>>, <<>>, <<>>),
     InputExample("g", <<"w1">>, <<>>, "0", "f", <<1>>, <<1>>, <<2>>, <<2>>)}

\* flatten is read only in sliding-window mode, so it is varied only there
BatchCalls ==
    {c \in {[examples |-> exs,
             a |-> DriverArgs(MaxSeqLen, FALSE, pol, FALSE, TRUE, DefaultStride),
             mask_padding_with_zero |-> m, sliding_window |-> sw, flatten |-> fl,
             process_count |-> n,
             args |-> [multiprocessing_chunksize |-> cs, process_count |-> n]] :
                exs \in SeqsUpTo(BatchExamples, MaxExamples), pol \in BOOLEAN,
                m \in BOOLEAN, sw \in BOOLEAN, fl \in BOOLEAN, n \in {1, 2},
                cs \in {-1, 1, 2}} :
        c.flatten => c.sliding_window}

InitBatch ==
    /\ call \in BatchCalls
    /\ bpc = "sequential"
    /\ seq_features = NoResult
    /\ taskq = <<>>
    /\ running = <<>>
    /\ cache = <<>>
    /\ collected = <<>>
    /\ par_features = NoResult
    /\ CallIdle
    /\ LazyIdle

Chunksize == chunksize_of(Len(call.examples), call.args)
NChunks == n_chunks(Len(call.examples), Chunksize)

\* the call with use_multiprocessing=False
CallSequential ==
    /\ bpc = "sequential"
    /\ seq_features' = sequential_features(call)
    /\ bpc' = "submit"
    /\ UNCHANGED <<call, taskq, running, cache, collected, par_features, callVars, lazyVars>>

\* the call with use_multiprocessing=True: the Pool is started and imap queues
\* the chunks
PoolSubmit ==
    /\ bpc = "submit"
    /\ taskq' = [i \in 1..NChunks |-> i]
    /\ running' = [w \in 1..call.process_count |-> 0]
    /\ cache' = <<>>
    /\ collected' = <<>>
    /\ bpc' = "pool"
    /\ UNCHANGED <<call, seq_features, par_features, callVars, lazyVars>>

\* an idle worker process takes the next chunk from the queue
WorkerTake(w) ==
    /\ bpc = "pool"
    /\ running[w] = 0
    /\ taskq # <<>>
    /\ running' = [running EXCEPT ![w] = Head(taskq)]
    /\ taskq' = Tail(taskq)
    /\ UNCHANGED <<call, bpc, seq_features, cache, collected, par_features, callVars, lazyVars>>

\* a worker process finishes its chunk and sends the outcome back
WorkerFinish(w) ==
    /\ bpc = "pool"
    /\ running[w] # 0
    /\ cache' = Append(cache, <<running[w],
                              map_rows(call, chunk_rows(pack_rows(call), Chunksize,
                                                        running[w]), <<>>)>>)
    /\ running' = [running EXCEPT ![w] = 0]
    /\ UNCHANGED <<call, bpc, seq_features, taskq, collected, par_features, callVars, lazyVars>>

Finished == {cache[k][1] : k \in 1..Len(cache)}
Yielded == {collected[k][1] : k \in 1..Len(collected)}

\* list(...) draws the next chunk's outcome from the result iterator
Collect ==
    /\ bpc = "pool"
    /\ \E k \in 1..Len(cache) :
          /\ cache[k][1] \in next_ready(Finished \ Yielded, Len(collected))
          /\ collected' = Append(collected, cache[k])
    /\ UNCHANGED <<call, bpc, seq_features, taskq, running, cache, par_features, callVars, lazyVars>>

\* the items gathered so far, or the first exception among them
RECURSIVE gathered(_, _)
gathered(outs, done) ==
    IF outs = <<>> THEN Returned(done)
    ELSE IF Head(outs)[2].raised # "" THEN Raised(Head(outs)[2].raised)
    ELSE gathered(Tail(outs), done \o Head(outs)[2].value)

\* list(...) ends, by exhaustion or by the exception of a yielded chunk; the
\* with-block terminates the Pool and the features are flattened and returned
PoolReturn ==
    /\ bpc = "pool"
    /\ LET g == gathered(collected, <<>>)
       IN /\ g.raised # "" \/ Len(collected) = NChunks
          /\ par_features' = IF g.raised # "" THEN g
                             ELSE Returned(flatten_features(call, g.value))
    /\ bpc' = "done"
    /\ UNCHANGED <<call, seq_features, taskq, running, cache, collected, callVars, lazyVars>>

NextBatch ==
    \/ CallSequential
    \/ PoolSubmit
    \/ \E w \in DOMAIN running : WorkerTake(w)
    \/ \E w \in DOMAIN running : WorkerFinish(w)
    \/ Collect
    \/ PoolReturn

SpecBatch == InitBatch /\ [][NextBatch]_vars

\* C2: on the same examples and configuration the parallel call and the
\* sequential call give the same outcome: the same features in input order,
\* whatever the workers, the chunk size and the order the chunks finish in
C2_ParallelIsSequential ==
    bpc = "done" => par_features = seq_features

\* C2 witness: a call over several chunks has returned its features, a later
\* chunk having finished before the first one
C2_Witness ==
    /\ bpc = "done" /\ par_features.raised = ""
    /\ Len(par_features.value) > 1
    /\ NChunks > 1
    /\ cache[1][1] # 1

\* the windows of each example, and the shape of the result C3 describes
C3_WindowsOf(ex) ==
    Len(token_sets(tokenize(ex.text_a), bucket_size(pack_row(ex, call.a)),
                   window_stride(call.a.max_seq_length, call.a.stride)))

RECURSIVE C3_TotalWindows(_)
C3_TotalWindows(exs) ==
    IF exs = <<>> THEN 0 ELSE C3_WindowsOf(Head(exs)) + C3_TotalWindows(Tail(exs))

C3_Shape(out) ==
    /\ out.raised = ""
    /\ IF call.flatten
       THEN Len(out.value) = C3_TotalWindows(call.examples)
       ELSE /\ Len(out.value) = Len(call.examples)
            /\ \A i \in 1..Len(out.value) :
                 Len(out.value[i]) = C3_WindowsOf(call.examples[i])

\* C3: in sliding-window mode over single-sequence examples the call returns,
\* for flatten=False, one non-empty list of window records per example, in
\* input order, and for flatten=True the concatenation of those lists: as
\* many records as the examples have windows
C3_SlidingBatch ==
    (call.sliding_window /\ \A i \in 1..Len(call.examples) : call.examples[i].text_b = <<>>) =>
        /\ bpc # "sequential" => C3_Shape(seq_features)
        /\ bpc = "done" => C3_Shape(par_features)

\* the mask and pad ids C7 describes for one example
C7_Expected(ex, feature) ==
    LET L == Len(tokenize(ex.text_a))
        n == call.a.max_seq_length
        real == Repeat(IF call.mask_padding_with_zero THEN 1 ELSE 0, L + 2)
        pad == Repeat(IF call.mask_padding_with_zero THEN 0 ELSE 1, n - (L + 2))
        pad_positions == IF call.a.pad_on_left THEN 1..(n - (L + 2)) ELSE (L + 3)..n
    IN /\ feature.input_mask = IF call.a.pad_on_left THEN pad \o real ELSE real \o pad
       /\ \A i \in pad_positions : feature.input_ids[i] = call.a.pad_token

\* C7: a single sequence of L <= max_seq_length - 2 tokens, encoded with
\* padding by the batch driver, has a mask of L + 2 real positions and
\* max_seq_length - (L + 2) pad positions, real = 1 and pad = 0 when
\* mask_padding_with_zero is true and real = 0 and pad = 1 when it is false,
\* the real positions first unless pad_on_left, and the pad positions of
\* input_ids hold pad_token
C7_MaskLayout ==
    (~call.sliding_window /\ call.a.pad_to_max_length /\ bpc # "sequential"
       /\ seq_features.raised = "") =>
        \A i \in 1..Len(call.examples) :
            (/\ call.examples[i].text_b = <<>>
             /\ Len(tokenize(call.examples[i].text_a)) <= call.a.max_seq_length - 2) =>
                C7_Expected(call.examples[i], seq_features.value[i])

\* ------------------------------------------- LazyClassificationDataset, by call
\* a header line and data lines of three fields: text_a, text_b, label
FileLines == {<<"text_a", "text_b", "labels">>, <<"x", "y", "pos">>, <<"x", "y", "1">>}

LabelsMaps == {<<>>, [l \in {"pos", "neg"} |-> IF l = "pos" THEN 1 ELSE 0]}

\* single-text mode reads column 0, text-pair mode columns 0 and 1
LazyArgs ==
    {[lazy_loading_start_line |-> s, lazy_text_column |-> <<0>>,
      lazy_text_a_column |-> IF pair THEN <<0>> ELSE <<>>,
      lazy_text_b_column |-> IF pair THEN <<1>> ELSE <<>>,
      lazy_labels_column |-> 2, labels_map |-> lm, regression |-> reg] :
        s \in 0..MaxStartLine, pair \in BOOLEAN, lm \in LabelsMaps, reg \in BOOLEAN}

InitLazy ==
    /\ file \in SeqsUpTo(FileLines, MaxLines)
    /\ largs \in LazyArgs
    /\ ds = <<>>
    /\ lcall = [op |-> "none", idx |-> 0, outcome |-> NoResult]
    /\ CallIdle
    /\ BatchIdle

\* LazyClassificationDataset(data_file, tokenizer, args)
LazyConstruct ==
    /\ lcall.op = "none"
    /\ LET r == lazy_init(file, largs)
       IN /\ lcall' = [op |-> "init", idx |-> 0, outcome |-> r]
          /\ ds' = IF r.raised = "" THEN r.value ELSE ds
    /\ UNCHANGED <<file, largs, callVars, batchVars>>

\* dataset[idx]
LazyGetItem(idx) ==
    /\ ds # <<>>
    /\ lcall' = [op |-> "getitem", idx |-> idx, outcome |-> lazy_getitem(file, ds, idx)]
    /\ UNCHANGED <<file, largs, ds, callVars, batchVars>>

\* dataset.__len__()
LazyLen ==
    /\ ds # <<>>
    /\ lcall' = [op |-> "len", idx |-> 0, outcome |-> Returned(lazy_len(ds))]
    /\ UNCHANGED <<file, largs, ds, callVars, batchVars>>

NextLazy ==
    \/ LazyConstruct
    \/ \E idx \in 0..MaxLines : LazyGetItem(idx)
    \/ LazyLen

SpecLazy == InitLazy /\ [][NextLazy]_vars

\* an in-range __getitem__ call, and the line it reads
C6_InRange == lcall.op = "getitem" /\ lcall.idx >= 0 /\ lcall.idx < lazy_len(ds)

C6_LineRead == item_lineno(ds, lcall.idx)

\* C6: a dataset built over a file of N lines with start offset s has length
\* N - s, and for 0 <= i < length __getitem__(i) reads line i + 1 + s: a line
\* after the s skipped ones and not past the end, the first such line for
\* i = 0 and the last line of the file for i = length - 1
C6_LazyIndexing ==
    ds # <<>> =>
        /\ lazy_len(ds) = Len(file) - largs.lazy_loading_start_line
        /\ lcall.op = "len" => lcall.outcome.value = Len(file) - largs.lazy_loading_start_line
        /\ C6_InRange =>
            /\ C6_LineRead = lcall.idx + 1 + largs.lazy_loading_start_line
            /\ C6_LineRead > largs.lazy_loading_start_line
            /\ C6_LineRead <= Len(file)
            /\ lcall.idx = lazy_len(ds) - 1 => C6_LineRead = Len(file)
            /\ lcall.outcome.raised = "" =>
                 lcall.outcome.value.encoded[1] = file[C6_LineRead][1]

\* C6 witness: with a header line skipped, the last index of a dataset of
\* more than one entry has been read
C6_Witness ==
    /\ ds # <<>> /\ C6_InRange
    /\ largs.lazy_loading_start_line = 1
    /\ lcall.idx = lazy_len(ds) - 1 /\ lcall.idx > 0
    /\ lcall.outcome.raised = ""

\* C10: __getitem__ converts the label the same way in single-text and in
\* text-pair mode: a label that labels_map maps comes back as its mapped id,
\* as a float tensor for regression and a long tensor otherwise
C10_LabelConversion ==
    (/\ ds # <<>> /\ C6_InRange
     /\ largs.labels_map # <<>>
     /\ file[C6_LineRead][3] \in DOMAIN largs.labels_map) =>
        /\ lcall.outcome.raised = ""
        /\ lcall.outcome.value.label =
             [dtype |-> IF largs.regression THEN "float" ELSE "long",
              value |-> largs.labels_map[file[C6_LineRead][3]]]

====
